---- MODULE Spec2Model ----
(***************************************************************************)
(* RecipeGem widget (web/src/Widget.tsx): reconciliation of the tool       *)
(* output with the widget state, the header, and the selectRecipe          *)
(* protocol (Spec); the carousel controller of unnamed/part_000            *)
(* (CarouselSpec).                                                         *)
(*                                                                         *)
(* JavaScript values are encoded so that TLC can compare them:             *)
(*   - a string that the code takes apart (a cuisine) is a tuple of        *)
(*     one-character strings; identifiers and sort modes, which the code   *)
(*     only compares, are TLA+ strings;                                    *)
(*   - `string | null` is a tuple of length <= 1 (<<>> is null);           *)
(*   - a value that may be undefined, null or an object is a record with   *)
(*     a `kind` field.                                                     *)
(***************************************************************************)
EXTENDS Integers, Sequences, FiniteSets, TLC

\* ------------------------------------------------------------------ bounds
\* selectRecipe invocations explored in one behaviour
MaxCalls == 2

\* ------------------------------------------------------------------ values
\* Recipe identifiers, the empty string among them. An identifier is missing
\* from a result list that holds no recipe carrying it.
Ids == {"r1", "r2", ""}

NullId == <<>>
SomeId(id) == <<id>>

\* type Recipe: the core reads only `id` and passes the object on, so the
\* identifier stands for the ten fields.
Recipe(id) == [kind |-> "recipe", id |-> id]
NullRecipe == [kind |-> "null", id |-> ""]
UndefinedRecipe == [kind |-> "undefined", id |-> ""]
Recipes == {Recipe(id) : id \in Ids}

\* `x ?? y` takes y exactly when x is null or undefined
Nullish(r) == r.kind \in {"null", "undefined"}

\* cuisine values: undefined, a string (tuple of characters) or a list of strings
UndefinedCuisine == [kind |-> "undefined", str |-> <<>>, list |-> <<>>]
StrCuisine(s) == [kind |-> "str", str |-> s, list |-> <<>>]
ListCuisine(l) == [kind |-> "list", str |-> <<>>, list |-> l]

Italian == <<"I", "t">>
Thai == <<"T", "h">>

\* optional number: <<>> is undefined
NoNumber == <<>>
\* optional sort mode
NoSort == "undefined"

\* ------------------------------------------------------------------ inputs
\* useToolInput(): { cuisine?: string | string[], min_duration?, sort? }
ToolInput(c, d, s) == [cuisine |-> c, min_duration |-> d, sort |-> s]
ToolInputs ==
    { ToolInput(UndefinedCuisine, NoNumber, NoSort),
      ToolInput(StrCuisine(<<" ">> \o Italian \o <<",", ",", " ">> \o Thai),
                <<10>>, "complexity"),
      ToolInput(ListCuisine(<<Italian>>), <<10>>, NoSort) }

\* type ToolOutput, and `{}` when useToolOutput() is null
RECURSIVE DistinctIds(_)
DistinctIds(rs) ==
    \/ rs = <<>>
    \/ /\ \A i \in 2..Len(rs) : rs[i].id # rs[1].id
       /\ DistinctIds(Tail(rs))

\* result lists (identifiers are unique in a result set): no recipe, two
\* recipes, and two others of which the first carries the empty identifier
ResultLists ==
    {rs \in {<<>>, <<Recipe("r1"), Recipe("r2")>>, <<Recipe(""), Recipe("r1")>>} :
        DistinctIds(rs)}

UndefinedResults == [kind |-> "undefined", items |-> <<>>]
ListResults(rs) == [kind |-> "list", items |-> rs]

UndefinedFilters == [kind |-> "undefined", min_duration |-> NoNumber, sort |-> NoSort]
Filters(m, s) == [kind |-> "object", min_duration |-> m, sort |-> s]

NoOutput ==
    [cuisine |-> UndefinedCuisine, results |-> UndefinedResults,
     selected |-> UndefinedRecipe, applied_filters |-> UndefinedFilters]

\* payloads of an empty search (no cuisine, no results) and of a search in two
\* cuisines (results present), each with selected absent, null or a recipe
PayloadCuisines == {ListCuisine(<<>>), ListCuisine(<<Thai, Italian>>)}
PayloadSelected == {UndefinedRecipe, NullRecipe, Recipe("r2")}
PayloadFilters == {Filters(NoNumber, "duration")}
Payloads ==
    {p \in [cuisine : PayloadCuisines,
            results : {ListResults(rs) : rs \in ResultLists},
            selected : PayloadSelected,
            applied_filters : PayloadFilters] :
        (p.cuisine.list = <<>>) <=> (p.results.items = <<>>)}

\* ------------------------------------------------------------------ state
VARIABLES
    toolInput,     \* useToolInput() ?? {}: the call parameters, fixed at mount
    toolOutput,    \* useToolOutput() ?? {}: the latest result payload, or NoOutput
    state,         \* the widget state held by useWidgetState
    hostCallTool,  \* typeof window.openai?.callTool === "function", now
    canCallTool,   \* the constant of that name, as computed by the last render
    pc,            \* "idle", or "probe": selectRecipe is between setState and `if`
    cuisineList,   \* selectRecipe's local of that name while it runs
    run,           \* the latest selectRecipe invocation: its id, and how its
                   \* synchronous part ended
    calls,         \* the callTool promises so far, each with the selected_id of
                   \* its request
    request,       \* what window.openai.callTool was last called with
    delivered,     \* the payload the host delivered last, or NoOutput
    origin,        \* the request the latest payload answers (0: none)
    emblaApi,      \* the carousel engine's API, "undefined" until it attaches
    canPrev,       \* React state of that name
    canNext,       \* React state of that name
    engine,        \* the scroll engine: the slides it knows and its position
    listeners      \* the engine events updateButtons is subscribed to

\* the carousel controller's variables
carouselVars == <<emblaApi, canPrev, canNext, engine, listeners>>

vars ==
    <<toolInput, toolOutput, state, hostCallTool, canCallTool, pc, cuisineList,
      run, calls, request, delivered, origin, carouselVars>>

\* ------------------------------------------------------------------ strings
\* String.prototype.split(","): the pieces between the commas, at least one
RECURSIVE Split(_)
Split(s) ==
    IF \E i \in 1..Len(s) : s[i] = ","
    THEN LET i == CHOOSE k \in 1..Len(s) :
                      s[k] = "," /\ \A j \in 1..(k - 1) : s[j] # ","
         IN  <<SubSeq(s, 1, i - 1)>> \o Split(SubSeq(s, i + 1, Len(s)))
    ELSE <<s>>

\* String.prototype.trim(): white space off both ends
RECURSIVE Trim(_)
Trim(s) ==
    IF s = <<>> THEN s
    ELSE IF s[1] = " " THEN Trim(Tail(s))
    ELSE IF s[Len(s)] = " " THEN Trim(SubSeq(s, 1, Len(s) - 1))
    ELSE s

MapTrim(l) == [i \in 1..Len(l) |-> Trim(l[i])]

\* Array.prototype.filter(Boolean) on strings: the empty ones go
FilterBoolean(l) == SelectSeq(l, LAMBDA x : x # <<>>)

\* ------------------------------------------------------------------ view
\* mutant of Truthy: a null check in place of the truthiness test
NotNull(sid) == sid # NullId

\* truthiness of `selected_id`: null and "" are falsy
Truthy(sid) == sid # NullId /\ sid # SomeId("")

\* mutant of Find: the `?? null` after find() is dropped
RECURSIVE FindOrUndefined(_, _)
FindOrUndefined(rs, id) ==
    IF rs = <<>> THEN UndefinedRecipe
    ELSE IF rs[1].id = id THEN rs[1]
    ELSE FindOrUndefined(Tail(rs), id)

\* results.find((s) => s.id === id) ?? null
RECURSIVE Find(_, _)
Find(rs, id) ==
    IF rs = <<>> THEN NullRecipe
    ELSE IF rs[1].id = id THEN rs[1]
    ELSE Find(Tail(rs), id)

\* const results = toolOutput.results ?? []
Results(out) ==
    IF out.results.kind = "undefined" THEN <<>> ELSE out.results.items

\* the local-lookup operand of `??` in `selected`
LookupSelected(out, st) ==
    IF Truthy(st.selected_id) THEN Find(Results(out), st.selected_id[1])
    ELSE NullRecipe

\* mutant of Selected: the operands of `??` are swapped, the local lookup first
SelectedLocalFirst(out, st) ==
    IF ~Nullish(LookupSelected(out, st)) THEN LookupSelected(out, st)
    ELSE out.selected

\* const selected = toolOutput.selected ?? (state.selected_id ? ... : null)
Selected(out, st) ==
    IF ~Nullish(out.selected) THEN out.selected ELSE LookupSelected(out, st)

\* what the component renders from: the materialized view
View(out, st) == [results |-> Results(out), selected |-> Selected(out, st)]
view == View(toolOutput, state)

\* Array.prototype.join(", ")
RECURSIVE Join(_)
Join(l) ==
    IF l = <<>> THEN <<>>
    ELSE IF Len(l) = 1 THEN l[1]
    ELSE l[1] \o <<",", " ">> \o Join(Tail(l))

\* mutant of Header: the length test is dropped
HeaderAlwaysCuisines(out) == <<"Recipes in ">> \o Join(out.cuisine.list)

\* const header = useMemo(...): `Recipes in ${cuisineArr.join(", ")}` or
\* "RecipeGem", from cuisineArr = toolOutput.cuisine ?? []; the memo's only
\* dependency is toolOutput.cuisine, the one value the function reads
Header(out) ==
    LET cuisineArr == IF out.cuisine.kind = "undefined" THEN <<>> ELSE out.cuisine.list
    IN  IF Len(cuisineArr) # 0 THEN <<"Recipes in ">> \o Join(cuisineArr)
        ELSE <<"RecipeGem">>
header == Header(toolOutput)

\* ------------------------------------------------------------------ selectRecipe
\* mutant of CuisineList: the locally seeded cuisine is preferred to the
\* payload's
CuisineListSeedFirst(out, st) ==
    IF st.cuisine.kind = "list" THEN [ok |-> FALSE, value |-> UndefinedCuisine]
    ELSE IF st.cuisine.kind = "str" /\ st.cuisine.str # <<>>
         THEN [ok |-> TRUE,
               value |-> ListCuisine(FilterBoolean(MapTrim(Split(st.cuisine.str))))]
    ELSE IF out.cuisine.kind # "undefined" THEN [ok |-> TRUE, value |-> out.cuisine]
    ELSE [ok |-> TRUE, value |-> ListCuisine(<<>>)]

\* const cuisineList = toolOutput.cuisine ?? (state.cuisine ? split... : [])
\* `ok` is FALSE when the expression throws a TypeError: state.cuisine is an
\* array (truthy, and without a split method).
CuisineList(out, st) ==
    IF out.cuisine.kind # "undefined" THEN [ok |-> TRUE, value |-> out.cuisine]
    ELSE IF st.cuisine.kind = "list" THEN [ok |-> FALSE, value |-> UndefinedCuisine]
    ELSE IF st.cuisine.kind = "str" /\ st.cuisine.str # <<>>
         THEN [ok |-> TRUE,
               value |-> ListCuisine(FilterBoolean(MapTrim(Split(st.cuisine.str))))]
    ELSE [ok |-> TRUE, value |-> ListCuisine(<<>>)]

\* mutant of SetSelected: the optimistic update is left out
SetSelectedNever(st, id) == st

\* mutant of SetSelected: the spread of the old state is left out
SetSelectedWithoutSpread(st, id) ==
    [cuisine |-> UndefinedCuisine, min_duration |-> NoNumber, sort |-> NoSort,
     selected_id |-> SomeId(id)]

\* setState({ ...state, selected_id: id })
SetSelected(st, id) == [st EXCEPT !.selected_id = SomeId(id)]

\* callTool("explore_recipe", { cuisine: cuisineList, min_duration, sort,
\* selected_id: id }): the tool name and the argument object
Request(st, cl, id) ==
    [tool |-> "explore_recipe", cuisine |-> cl,
     min_duration |-> st.min_duration, sort |-> st.sort, selected_id |-> id]
NoRequest ==
    [tool |-> "", cuisine |-> UndefinedCuisine,
     min_duration |-> NoNumber, sort |-> NoSort, selected_id |-> ""]

\* the promise callTool returns: "pending", then "resolved" or "rejected", and
\* "answered" once the host has delivered the payload that answers it
Promise(req) == [selected_id |-> req.selected_id, status |-> "pending"]

\* a render evaluates `typeof window.openai?.callTool === "function"` anew
Render(host) == host

NoRun == [id |-> "", status |-> "none"]

\* the engine before it has attached to the slides
NoEngine == [slides |-> 0, index |-> 0]

Init ==
    /\ toolInput \in ToolInputs
    /\ toolOutput = NoOutput
    /\ state = [cuisine |-> toolInput.cuisine,
                min_duration |-> toolInput.min_duration,
                sort |-> toolInput.sort,
                selected_id |-> NullId]
    /\ hostCallTool \in BOOLEAN
    /\ canCallTool = Render(hostCallTool)
    /\ pc = "idle"
    /\ cuisineList = UndefinedCuisine
    /\ run = NoRun
    /\ calls = <<>>
    /\ request = NoRequest
    /\ delivered = NoOutput
    /\ origin = 0
    /\ emblaApi = "undefined"
    /\ canPrev = FALSE
    /\ canNext = FALSE
    /\ engine = NoEngine
    /\ listeners = {}

\* selectRecipe(id), lines 72-77: the cuisine list, then the optimistic update.
\* A TypeError in the first statement rejects the promise before setState.
SelectRecipe(id) ==
    /\ pc = "idle"
    /\ Len(calls) < MaxCalls
    /\ LET cl == CuisineList(toolOutput, state) IN
       IF cl.ok
       THEN /\ state' = SetSelected(state, id)
            /\ cuisineList' = cl.value
            /\ run' = [id |-> id, status |-> "running"]
            /\ pc' = "probe"
       ELSE /\ run' = [id |-> id, status |-> "threw"]
            /\ UNCHANGED <<state, cuisineList, pc>>
    /\ UNCHANGED <<carouselVars, toolInput, toolOutput, hostCallTool, canCallTool, calls,
                   request, delivered, origin>>

\* what `if (canCallTool) { await window.openai.callTool!(...) }` does with the
\* render's canCallTool `can` and the host's capability `host`:
\* "dispatch", "throw" (callTool is not a function) or "return"
Probe(can, host) ==
    IF can THEN (IF host THEN "dispatch" ELSE "throw") ELSE "return"

\* selectRecipe, lines 79-86, up to the suspension at `await`; the handler has
\* then returned and React renders the state set in line 77.
CallTool ==
    /\ pc = "probe"
    /\ LET what == Probe(canCallTool, hostCallTool)
           req == Request(state, cuisineList, run.id) IN
       /\ request' = IF what = "dispatch" THEN req ELSE request
       /\ calls' = IF what = "dispatch" THEN Append(calls, Promise(req)) ELSE calls
       /\ run' = CASE what = "dispatch" -> [run EXCEPT !.status = "awaiting"]
                   [] what = "throw" -> [run EXCEPT !.status = "threw"]
                   [] OTHER -> [run EXCEPT !.status = "returned"]
    /\ pc' = "idle"
    /\ cuisineList' = UndefinedCuisine
    /\ canCallTool' = Render(hostCallTool)
    /\ UNCHANGED <<carouselVars, toolInput, toolOutput, state, hostCallTool, delivered, origin>>

\* mutant of ResolveCall: the continuation after the await sets selected_id
\* again, to the id of its own request
ResolveCallReapplies(k) ==
    /\ pc = "idle"
    /\ k \in 1..Len(calls)
    /\ calls[k].status = "pending"
    /\ calls' = [calls EXCEPT ![k].status = "resolved"]
    /\ state' = [state EXCEPT !.selected_id = SomeId(calls[k].selected_id)]
    /\ UNCHANGED <<carouselVars, toolInput, toolOutput, hostCallTool, canCallTool, pc,
                   cuisineList, run, request, delivered, origin>>

\* mutant of ResolveCall: the continuation after the await applies the call's
\* return value as the output, with the requested recipe as its `selected`
ResolveCallAppliesResponse(k) ==
    /\ pc = "idle"
    /\ k \in 1..Len(calls)
    /\ calls[k].status = "pending"
    /\ calls' = [calls EXCEPT ![k].status = "resolved"]
    /\ toolOutput' = [cuisine |-> ListCuisine(<<>>),
                      results |-> ListResults(<<>>),
                      selected |-> Recipe(calls[k].selected_id),
                      applied_filters |-> Filters(NoNumber, "duration")]
    /\ UNCHANGED <<carouselVars, toolInput, state, hostCallTool, canCallTool, pc,
                   cuisineList, run, request, delivered, origin>>

\* the pending callTool promise k is fulfilled: selectRecipe resumes after the
\* await, discards the value and returns
ResolveCall(k) ==
    /\ pc = "idle"
    /\ k \in 1..Len(calls)
    /\ calls[k].status = "pending"
    /\ calls' = [calls EXCEPT ![k].status = "resolved"]
    /\ UNCHANGED <<carouselVars, toolInput, toolOutput, state, hostCallTool, canCallTool, pc,
                   cuisineList, run, request, delivered, origin>>

\* mutant of RejectCall: a catch around the await rolls the selection back
RejectCallRollsBack(k) ==
    /\ pc = "idle"
    /\ k \in 1..Len(calls)
    /\ calls[k].status = "pending"
    /\ calls' = [calls EXCEPT ![k].status = "rejected"]
    /\ state' = [state EXCEPT !.selected_id = NullId]
    /\ UNCHANGED <<carouselVars, toolInput, toolOutput, hostCallTool, canCallTool, pc,
                   cuisineList, run, request, delivered, origin>>

\* the pending callTool promise k is rejected: the await rethrows, and
\* selectRecipe has no catch
RejectCall(k) ==
    /\ pc = "idle"
    /\ k \in 1..Len(calls)
    /\ calls[k].status = "pending"
    /\ calls' = [calls EXCEPT ![k].status = "rejected"]
    /\ UNCHANGED <<carouselVars, toolInput, toolOutput, state, hostCallTool, canCallTool, pc,
                   cuisineList, run, request, delivered, origin>>

\* mutant of Deliver: an ordering guard, the answer to a request older than one
\* already answered is dropped
DeliverGuarded(old, p, k) ==
    IF k # 0 /\ \E j \in (k + 1)..Len(calls) : calls[j].status = "answered"
    THEN old ELSE p

\* mutant of Deliver: a merge, the previous `selected` is kept where the new
\* payload has none
DeliverMerged(old, p, k) ==
    [p EXCEPT !.selected = IF Nullish(p.selected) /\ ~Nullish(old.selected)
                           THEN old.selected ELSE p.selected]

\* useToolOutput() after the host delivers payload p as the answer to request
\* k (0: unasked): p replaces what was there, whichever request it answers
Deliver(old, p, k) == p

\* the host delivers a result payload: once unasked (k = 0: the load, while no
\* payload has arrived yet), afterwards one per fulfilled request k, as its
\* answer; the component renders again
DeliverPayload(p, k) ==
    /\ pc = "idle"
    /\ \/ /\ k = 0
          /\ delivered = NoOutput
          /\ UNCHANGED calls
       \/ /\ k \in 1..Len(calls)
          /\ calls[k].status = "resolved"
          /\ calls' = [calls EXCEPT ![k].status = "answered"]
    /\ toolOutput' = Deliver(toolOutput, p, k)
    /\ delivered' = p
    /\ origin' = k
    /\ canCallTool' = Render(hostCallTool)
    /\ UNCHANGED <<carouselVars, toolInput, state, hostCallTool, pc, cuisineList, run, request>>

\* the host installs or removes window.openai.callTool; nothing renders
SetCapability ==
    /\ pc = "idle"
    /\ hostCallTool' = ~hostCallTool
    /\ UNCHANGED <<carouselVars, toolInput, toolOutput, state, canCallTool, pc, cuisineList,
                   run, calls, request, delivered, origin>>

Next ==
    \/ \E id \in Ids : SelectRecipe(id)
    \/ CallTool
    \/ \E k \in 1..MaxCalls : ResolveCall(k)
    \/ \E k \in 1..MaxCalls : RejectCall(k)
    \/ \E p \in Payloads, k \in 0..MaxCalls : DeliverPayload(p, k)
    \/ SetCapability

Spec == Init /\ [][Next]_vars

\* ------------------------------------------------------------------ carousel
\* The carousel controller (unnamed/part_000, lines 40-63) reads nothing of the
\* selection protocol but the slides rendered from `results`, and writes none
\* of its variables; it is explored in a specification of its own, CarouselSpec,
\* in which the protocol runs for one call-parameter set and one recipe.
coreVars ==
    <<toolInput, toolOutput, state, hostCallTool, canCallTool, pc, cuisineList,
      run, calls, request, delivered, origin>>

\* emblaApi.canScrollPrev() and emblaApi.canScrollNext() with loop: false: there
\* is a slide before, or after, the engine's position
CanScrollPrev(eng) == eng.index > 0
CanScrollNext(eng) == eng.index < eng.slides - 1

\* the engine (re)reads the slides in the DOM; its position stays within them
ReadSlides(eng, n) ==
    [slides |-> n,
     index |-> IF eng.index < n THEN eng.index ELSE IF n = 0 THEN 0 ELSE n - 1]

\* the engine emits `event` in state eng: updateButtons runs if it is subscribed
\* to the event, and sets both booleans
Emit(event, eng) ==
    IF event \in listeners
    THEN /\ canPrev' = CanScrollPrev(eng)
         /\ canNext' = CanScrollNext(eng)
    ELSE UNCHANGED <<canPrev, canNext>>

\* the engine attaches and emblaApi becomes defined; the effect of lines 50-63
\* runs: updateButtons(), then on("select") and on("reInit")
Bind ==
    /\ pc = "idle"
    /\ emblaApi = "undefined"
    /\ emblaApi' = "api"
    /\ engine' = ReadSlides(NoEngine, Len(Results(toolOutput)))
    /\ canPrev' = CanScrollPrev(engine')
    /\ canNext' = CanScrollNext(engine')
    /\ listeners' = {"select", "reInit"}
    /\ UNCHANGED coreVars

\* the engine settles on slide i and notifies "select"
EngineSelect(i) ==
    /\ pc = "idle"
    /\ emblaApi = "api"
    /\ i \in 0..(engine.slides - 1)
    /\ i # engine.index
    /\ engine' = [engine EXCEPT !.index = i]
    /\ Emit("select", engine')
    /\ UNCHANGED <<coreVars, emblaApi, listeners>>

\* the engine notices the slides now rendered and notifies "reInit"
EngineReInit ==
    /\ pc = "idle"
    /\ emblaApi = "api"
    /\ engine' = ReadSlides(engine, Len(Results(toolOutput)))
    /\ Emit("reInit", engine')
    /\ UNCHANGED <<coreVars, emblaApi, listeners>>

\* mutant of Teardown: the cleanup forgets off("select")
TeardownKeepsSelect ==
    /\ pc = "idle"
    /\ emblaApi = "api"
    /\ listeners # {}
    /\ listeners # {"select"}
    /\ listeners' = {"select"}
    /\ UNCHANGED <<coreVars, emblaApi, canPrev, canNext, engine>>

\* the controller is torn down: the effect's cleanup, off("select") and
\* off("reInit")
Teardown ==
    /\ pc = "idle"
    /\ emblaApi = "api"
    /\ listeners # {}
    /\ listeners' = (listeners \ {"select"}) \ {"reInit"}
    /\ UNCHANGED <<coreVars, emblaApi, canPrev, canNext, engine>>

CarouselInit ==
    /\ Init
    /\ toolInput.cuisine.kind = "undefined"
    /\ hostCallTool

CarouselNext ==
    \/ SelectRecipe("r1")
    \/ CallTool
    \/ \E k \in 1..MaxCalls : ResolveCall(k)
    \/ \E p \in Payloads, k \in 0..MaxCalls : DeliverPayload(p, k)
    \/ Bind
    \/ \E i \in 0..1 : EngineSelect(i)
    \/ EngineReInit
    \/ Teardown

CarouselSpec == CarouselInit /\ [][CarouselNext]_vars

\* ------------------------------------------------------------------ steps
\* selectRecipe was entered and has done its setState
SelectStep == pc = "idle" /\ pc' = "probe"
\* the synchronous part of selectRecipe ends: suspended, returned or thrown
HandlerEndStep == pc = "probe" /\ pc' = "idle"
\* a step of a selectRecipe invocation, a TypeError in its first line included
InvocationStep == pc' # pc \/ run' # run
\* window.openai.callTool was called
DispatchStep == Len(calls') = Len(calls) + 1
\* a pending callTool promise is rejected, or fulfilled
RejectStep ==
    \E k \in 1..Len(calls) : calls[k].status = "pending" /\ calls'[k].status = "rejected"
ResolveStep ==
    \E k \in 1..Len(calls) : calls[k].status = "pending" /\ calls'[k].status = "resolved"
\* the host delivers a payload
DeliverStep ==
    \/ delivered' # delivered
    \/ origin' # origin
    \/ \E k \in 1..Len(calls) : calls[k].status # "answered" /\ calls'[k].status = "answered"

HasId(rs, id) == \E i \in 1..Len(rs) : rs[i].id = id
ElementWithId(rs, id) == rs[CHOOSE i \in 1..Len(rs) : rs[i].id = id]

\* ------------------------------------------------------------------ claims
\* C1: whenever the payload delivered last carries a non-null `selected` recipe
\* R, the view's `selected` is R, whatever state.selected_id is.
C1_AuthoritativeSelectedWins ==
    ~Nullish(delivered.selected) => view.selected = delivered.selected

\* C1 witness: the payload selects r2 while the local selection is r1, another
\* recipe of the same results.
C1_Witness ==
    /\ delivered.selected = Recipe("r2")
    /\ state.selected_id = SomeId("r1")
    /\ HasId(view.results, "r1")
    /\ view.selected = Recipe("r2")

\* C2 (as claimed): with the payload's `selected` absent or null, the view's
\* `selected` is the element of the payload's results whose identifier equals
\* state.selected_id, and null when there is none.
C2_LocalLookup ==
    (delivered # NoOutput /\ Nullish(delivered.selected)) =>
        view.selected =
            IF state.selected_id # NullId
               /\ HasId(delivered.results.items, state.selected_id[1])
            THEN ElementWithId(delivered.results.items, state.selected_id[1])
            ELSE NullRecipe

\* C3 (as claimed): no selectRecipe(id) ends, suspends or reaches its dispatch
\* with state.selected_id different from id.
C3_SelectedIdSetFirst ==
    run.status # "none" => state.selected_id = SomeId(run.id)

C5_DegradesWithoutCapability ==
    [][(InvocationStep /\ ~hostCallTool) =>
           /\ run'.status \in {"running", "returned"}
           /\ calls' = calls
           /\ state'.selected_id = SomeId(run'.id)]_vars

\* C6: the rejection of a callTool promise dispatches no further request and
\* changes neither the widget state nor the payload; the widget state changes
\* only in a selectRecipe, the payload only in a delivery.
C6_NoRetryNoRollback ==
    [][/\ RejectStep =>
              /\ Len(calls') = Len(calls)
              /\ request' = request
              /\ state' = state
              /\ toolOutput' = toolOutput
       /\ state' # state => SelectStep
       /\ toolOutput' # toolOutput => DeliverStep]_vars

\* C6 witness: the one request dispatched was rejected, and the selection of
\* its invocation is still in the widget state.
C6_Witness ==
    /\ Len(calls) = 1
    /\ calls[1].status = "rejected"
    /\ state.selected_id = SomeId(calls[1].selected_id)
    /\ run.status = "awaiting"

\* C7 (as claimed): selectRecipe dispatches a request exactly when the host has
\* callTool at the time of the action.
C7_ProbedPerAction ==
    [][HandlerEndStep => (DispatchStep <=> hostCallTool)]_vars

\* C8: every selectRecipe(id) that passes its first line leaves
\* state.selected_id = id and the promises of earlier requests as they were;
\* the settling of a promise, in whatever order, changes neither the widget
\* state nor another promise; no promise is ever removed or cancelled.
C8_LastSelectionWins ==
    [][/\ SelectStep => (state'.selected_id = SomeId(run'.id) /\ calls' = calls)
       /\ (ResolveStep \/ RejectStep) => state' = state
       /\ Len(calls') >= Len(calls)
       /\ \A k \in 1..Len(calls) :
              /\ calls'[k].selected_id = calls[k].selected_id
              /\ \/ calls'[k].status = calls[k].status
                 \/ /\ calls[k].status = "pending"
                    /\ calls'[k].status \in {"resolved", "rejected"}
                    /\ \A j \in 1..Len(calls) : j # k => calls'[j] = calls[j]
                 \/ calls[k].status = "resolved" /\ calls'[k].status = "answered"]_vars

\* C8 witness: r1 was selected while the request for r2 was pending; the later
\* request settled first, the earlier one is still in flight, and the widget
\* state holds r1.
C8_Witness ==
    /\ Len(calls) = 2
    /\ calls[1] = [selected_id |-> "r2", status |-> "pending"]
    /\ calls[2] = [selected_id |-> "r1", status |-> "resolved"]
    /\ state.selected_id = SomeId("r1")

\* the payload shown answers a request older than one already answered
StaleAnswer ==
    origin # 0 /\ \E j \in (origin + 1)..Len(calls) : calls[j].status = "answered"

\* C9: no ordering guard: a payload that answers a request older than one
\* already answered replaces the output all the same, and its `selected` is
\* what the view shows.
C9_NoOrderingGuard ==
    StaleAnswer =>
        /\ toolOutput = delivered
        /\ view.results = delivered.results.items
        /\ ~Nullish(delivered.selected) => view.selected = delivered.selected

\* C9 witness: r2 was selected, then r1; the answer to the r1 request came
\* first, the answer to the r2 request last, and the view shows r2 although
\* state.selected_id is r1.
C9_Witness ==
    /\ StaleAnswer
    /\ origin = 1
    /\ calls[1].selected_id = "r2"
    /\ calls[2].selected_id = "r1"
    /\ state.selected_id = SomeId("r1")
    /\ view.selected = Recipe("r2")

\* C10: as long as the host has delivered no payload, the view has no results
\* and a null `selected`, whatever state.selected_id is.
C10_EmptyBeforeFirstPayload ==
    delivered = NoOutput => (view.results = <<>> /\ view.selected = NullRecipe)

\* C10 witness: selectRecipe("r1") has run with no payload present.
C10_Witness ==
    /\ delivered = NoOutput
    /\ pc = "idle"
    /\ run.status \in {"awaiting", "returned"}
    /\ state.selected_id = SomeId("r1")
    /\ view = [results |-> <<>>, selected |-> NullRecipe]

\* C11 (as claimed): every request dispatched by selectRecipe(id) calls
\* explore_recipe with the payload's cuisine when a payload is present and the
\* seeded cuisine of the widget state otherwise, with the widget state's
\* min_duration and sort, and with selected_id = id.
C11_RequestArguments ==
    [][DispatchStep =>
           request' =
               [tool |-> "explore_recipe",
                cuisine |-> IF delivered # NoOutput THEN delivered.cuisine
                            ELSE state.cuisine,
                min_duration |-> state.min_duration,
                sort |-> state.sort,
                selected_id |-> run.id]]_vars

\* C11 (amended): as claimed, except that without a payload the cuisine sent is
\* the list of the trimmed non-empty pieces between the commas of the seeded
\* cuisine string (the empty list when none was seeded); the arguments outlive
\* the dispatch unchanged.
C11_RequestArgumentsFromSeedList ==
    [][/\ DispatchStep =>
              request' =
                  [tool |-> "explore_recipe",
                   cuisine |-> IF delivered # NoOutput THEN delivered.cuisine
                               ELSE IF state.cuisine.kind = "str"
                               THEN ListCuisine(FilterBoolean(MapTrim(Split(state.cuisine.str))))
                               ELSE ListCuisine(<<>>),
                   min_duration |-> state.min_duration,
                   sort |-> state.sort,
                   selected_id |-> run.id]
       /\ request' # request => DispatchStep]_vars

\* C11 witness: with no payload and the seeded string " It,, Th", the request
\* for r1 went out with the list of the two cuisines and the seeded filters.
C11_Witness ==
    /\ delivered = NoOutput
    /\ state.cuisine.kind = "str"
    /\ run = [id |-> "r1", status |-> "awaiting"]
    /\ request = [tool |-> "explore_recipe",
                  cuisine |-> ListCuisine(<<Italian, Thai>>),
                  min_duration |-> <<10>>, sort |-> "complexity",
                  selected_id |-> "r1"]

\* C12: the header is "Recipes in " followed by the cuisines of the payload
\* delivered last, joined by ", ", exactly when that payload's cuisine list is
\* not empty; it is "RecipeGem" for an empty list and without a payload,
\* whatever cuisine was seeded.
C12_Header ==
    /\ (delivered # NoOutput /\ delivered.cuisine.list # <<>>) =>
           /\ header = <<"Recipes in ">> \o Join(delivered.cuisine.list)
           /\ header # <<"RecipeGem">>
    /\ delivered.cuisine = ListCuisine(<<Thai, Italian>>) =>
           header = <<"Recipes in ", "T", "h", ",", " ", "I", "t">>
    /\ (delivered = NoOutput \/ delivered.cuisine.list = <<>>) =>
           header = <<"RecipeGem">>

\* C12 witness: a cuisine string was seeded, no payload has arrived, a
\* selection was made, and the header is the generic title.
C12_Witness ==
    /\ state.cuisine.kind = "str"
    /\ delivered = NoOutput
    /\ state.selected_id # NullId
    /\ header = <<"RecipeGem">>

\* ------------------------------------------------------------------ carousel claims
\* the controller is subscribed to both engine events
Bound == listeners = {"select", "reInit"}
\* the controller was bound and has been torn down
TornDown == emblaApi = "api" /\ listeners = {}
\* the engine changed its slides or its position, and notified
EngineStep == engine' # engine

\* C13 (as claimed): in every state where the view's results are empty, canPrev
\* and canNext are both false.
C13_EmptyResultsNoScroll ==
    view.results = <<>> => (~canPrev /\ ~canNext)

\* C14: while updateButtons is subscribed, every notification of the engine
\* sets both booleans, in the same step, to what the engine then reports, and
\* they change in no other step; a teardown detaches both listeners at once,
\* for good, and after it no notification changes either boolean.
C14_RecomputedWhileBound ==
    [][/\ (Bound /\ EngineStep) =>
              /\ canPrev' = CanScrollPrev(engine')
              /\ canNext' = CanScrollNext(engine')
       /\ (canPrev' # canPrev \/ canNext' # canNext) => EngineStep
       /\ (emblaApi = "api" /\ listeners' # listeners) => listeners' = {}
       /\ TornDown => /\ canPrev' = canPrev
                      /\ canNext' = canNext
                      /\ listeners' = {}
                      /\ emblaApi' = "api"]_vars

\* C14 witness: bound over two slides at the first one (canNext set), torn
\* down, and the engine has since moved to the last slide: the booleans are
\* those of the time of the teardown.
C14_Witness ==
    /\ TornDown
    /\ engine = [slides |-> 2, index |-> 1]
    /\ ~canPrev
    /\ canNext

\* C15: the widget state's cuisine, min_duration and sort are at every moment
\* the values seeded from the tool input, whatever selections have run or
\* overlap.
C15_SeedKept ==
    /\ state.cuisine = toolInput.cuisine
    /\ state.min_duration = toolInput.min_duration
    /\ state.sort = toolInput.sort

\* C15 witness: r2 was selected while the request for r1 was still pending, and
\* the seeded string, duration and sort are still in the widget state.
C15_Witness ==
    /\ Len(calls) = 2
    /\ calls[1] = [selected_id |-> "r1", status |-> "pending"]
    /\ state.selected_id = SomeId("r2")
    /\ state.cuisine.kind = "str"
    /\ state.min_duration = <<10>>
    /\ state.sort = "complexity"

\* C16: the settling of a callTool promise, fulfilled or rejected, changes
\* neither the widget state nor the output, the view or the header; outside a
\* selectRecipe the view and the header change only when the host delivers a
\* payload.
C16_ResolutionChangesNothing ==
    [][/\ (ResolveStep \/ RejectStep) =>
              /\ state' = state
              /\ toolOutput' = toolOutput
              /\ view' = view
              /\ header' = header
       /\ (view' # view \/ header' # header) => (SelectStep \/ DeliverStep)
       /\ header' # header => DeliverStep]_vars

\* C16 witness: the request for r2 was fulfilled and the host has not answered
\* it; the output is still the first payload, and the view shows the local
\* selection.
C16_Witness ==
    /\ Len(calls) = 1
    /\ calls[1] = [selected_id |-> "r2", status |-> "resolved"]
    /\ origin = 0
    /\ delivered # NoOutput
    /\ toolOutput = delivered
    /\ delivered.selected = NullRecipe
    /\ state.selected_id = SomeId("r2")
    /\ view.selected = Recipe("r2")

\* C17: the view's results are those of the payload delivered last, element for
\* element and in its order (none before the first payload); the output is that
\* payload and nothing else, so the view's `selected` is its `selected`, one of
\* its results, or null.
C17_WholesaleReplacement ==
    /\ toolOutput = delivered
    /\ Len(view.results) = Len(delivered.results.items)
    /\ \A i \in 1..Len(view.results) : view.results[i] = delivered.results.items[i]
    /\ \/ view.selected = NullRecipe
       \/ ~Nullish(delivered.selected) /\ view.selected = delivered.selected
       \/ \E i \in 1..Len(delivered.results.items) :
              view.selected = delivered.results.items[i]

\* C17 witness: r1 was selected under a payload of the two-cuisine search, which
\* lists r1; the answer delivered since is the empty search with null
\* `selected`, and the view has no results and no selection.
C17_Witness ==
    /\ request.cuisine = ListCuisine(<<Thai, Italian>>)
    /\ request.selected_id = "r1"
    /\ state.selected_id = SomeId("r1")
    /\ origin = 1
    /\ delivered.results = ListResults(<<>>)
    /\ delivered.selected = NullRecipe
    /\ view = [results |-> <<>>, selected |-> NullRecipe]

\* C18 (as claimed): state.selected_id is null until a selectRecipe sets it; no
\* delivery changes it; once set it is never null again and is the id of the
\* latest selectRecipe invocation; and whenever a payload with absent or null
\* `selected` is delivered whose results hold a recipe with that id, the view
\* shows that recipe.
C18_SelectionSurvivesPayloads ==
    [][/\ run.status = "none" => state.selected_id = NullId
       /\ DeliverStep => state' = state
       /\ state.selected_id # NullId => state'.selected_id # NullId
       /\ state'.selected_id # NullId => state'.selected_id = SomeId(run'.id)
       /\ (/\ DeliverStep
           /\ state.selected_id # NullId
           /\ Nullish(delivered'.selected)
           /\ HasId(delivered'.results.items, state.selected_id[1])) =>
              view'.selected = Recipe(state.selected_id[1])]_vars

\* C19: with the payload's `selected` absent or null and state.selected_id the
\* empty string, the view's `selected` is null, also when the results hold a
\* recipe whose identifier is the empty string.
C19_EmptyIdIsNoSelection ==
    (Nullish(toolOutput.selected) /\ state.selected_id = SomeId("")) =>
        view.selected = NullRecipe

\* C19 witness: the empty identifier is selected, the payload has null
\* `selected` and lists a recipe with the empty identifier, and the view shows
\* no selection.
C19_Witness ==
    /\ state.selected_id = SomeId("")
    /\ delivered.selected = NullRecipe
    /\ HasId(view.results, "")
    /\ view.selected = NullRecipe

====
